---------------------------- MODULE Spec2Model ----------------------------
(* MarkdownUI (src-tauri): the markdown export pipeline of converter.rs,   *)
(* the command surface of main.rs and the store of database.rs.            *)
(*                                                                         *)
(* A Rust string is a sequence of one-character strings.                   *)
EXTENDS Integers, Sequences, FiniteSets, TLC

VARIABLES
    collections,      \* rows of table collections
    documents,        \* rows of table documents
    nextCollectionId, \* AUTOINCREMENT of collections: the id of the next row
    nextDocumentId,   \* AUTOINCREMENT of documents
    dbLock,           \* the Mutex<Database> of main.rs: "free" or the task holding it
    dbReturn,         \* what the last store command returned
    exports,          \* export_document calls: task -> its locals and position
    fs,               \* output path -> the file written there
    chromeInstalled,  \* whether a Chromium-family browser is on the host
    probe,            \* what the last check_pdf_available returned
    content,          \* conversion run: the markdown handed to the converter
    convPc,           \* conversion run: "new" | "extracted" | "titled" | "converted"
    extracted,        \* conversion run: result of extract_mermaid_blocks(content)
    title,            \* conversion run: result of extract_title(content)
    converted,        \* conversion run: result of convert_markdown(content, format)
    token,            \* format run: the string handed to ExportFormat::from_str
    parsed            \* format run: the Result of from_str

dbVars == <<collections, documents, nextCollectionId, nextDocumentId, dbLock, dbReturn>>
exportVars == <<exports, fs, chromeInstalled, probe>>
convVars == <<content, convPc, extracted, title, converted>>
fmtVars == <<token, parsed>>
runVars == <<convVars, fmtVars>>
vars == <<dbVars, exportVars, convVars, fmtVars>>

NoResult == [tag |-> "none"]

\* the variables of the runs a specification does not make
FmtIdle == token = <<>> /\ parsed = NoResult

ConvIdle ==
    /\ content = <<>> /\ convPc = "off"
    /\ extracted = NoResult /\ title = NoResult /\ converted = NoResult

IdleExports ==
    /\ exports = <<>> /\ fs = <<>>
    /\ chromeInstalled = FALSE /\ probe = NoResult

SysIdle ==
    /\ collections = {} /\ documents = {}
    /\ nextCollectionId = 0 /\ nextDocumentId = 0
    /\ dbLock = "free" /\ dbReturn = NoResult
    /\ IdleExports

-----------------------------------------------------------------------------
(* Bounds of the checked input space.                                      *)

MaxLines == 3
MaxBlocks == 11
MaxId == 2

-----------------------------------------------------------------------------
(* str primitives of the Rust standard library, as the code uses them.     *)

Min(S) == CHOOSE x \in S : \A y \in S : x <= y

\* a loop's local is a value when the iteration starts: an operator's argument is
\* evaluated where it is first used, and a loop that hands it on unused would
\* nest all its iterations there
Evaluated(v) == v = v

\* the k-th smallest of a set of numbers
Nth(S, k) == CHOOSE x \in S : Cardinality({y \in S : y <= x}) = k

\* parts[i] \o ... \o parts[j], by halves
RECURSIVE FlattenRange(_, _, _)
FlattenRange(parts, i, j) ==
    IF i > j THEN <<>>
    ELSE IF i = j THEN parts[i]
    ELSE LET m == (i + j) \div 2
         IN  FlattenRange(parts, i, m) \o FlattenRange(parts, m + 1, j)

IsWhite(c) == c \in {" ", "\t", "\n", "\r"}

\* str::trim
Trim(s) ==
    LET keep == {i \in 1..Len(s) : ~IsWhite(s[i])}
    IN  IF keep = {} THEN <<>>
        ELSE SubSeq(s, Min(keep), CHOOSE x \in keep : \A y \in keep : y <= x)

\* str::starts_with
StartsWith(s, p) == Len(s) >= Len(p) /\ SubSeq(s, 1, Len(p)) = p

MatchAt(s, p, i) ==
    /\ i + Len(p) - 1 <= Len(s)
    /\ s[i] = p[1]
    /\ SubSeq(s, i, i + Len(p) - 1) = p

\* str::contains, for a non-empty pattern
Contains(s, p) == \E i \in 1..Len(s) : MatchAt(s, p, i)

RECURSIVE ReplaceFrom(_, _, _, _)
ReplaceFrom(s, p, r, from) ==
    LET hits == {i \in from..Len(s) : MatchAt(s, p, i)}
    IN  IF hits = {} THEN SubSeq(s, from, Len(s))
        ELSE LET i == Min(hits)
             IN  SubSeq(s, from, i - 1) \o r \o ReplaceFrom(s, p, r, i + Len(p))

\* str::replace, for a non-empty pattern: the non-overlapping matches, left to right
Replace(s, p, r) == ReplaceFrom(s, p, r, 1)

\* where the lines of s end: at each "\n", and after the last character of a
\* text that does not end in one
LineEnds(s) ==
    {i \in 1..Len(s) : s[i] = "\n"}
        \cup (IF s # <<>> /\ s[Len(s)] # "\n" THEN {Len(s) + 1} ELSE {})

\* s cut into its lines; crlf: a "\r" right before the "\n" goes with it
SplitLines(s, crlf) ==
    LET ends == LineEnds(s)
        n == Cardinality(ends)
        end == [k \in 1..n |-> Nth(ends, k)]
    IN  IF n = 0 THEN <<>>
        ELSE [k \in 1..n |->
                LET from == IF k = 1 THEN 1 ELSE end[k - 1] + 1
                    nl == end[k]
                    to == IF crlf /\ nl <= Len(s) /\ nl > from /\ s[nl - 1] = "\r"
                          THEN nl - 2 ELSE nl - 1
                IN  SubSeq(s, from, to)]

\* str::lines: split at "\n", a "\r" right before the "\n" is dropped, and no
\* last empty line
Lines(s) == SplitLines(s, TRUE)

Digit(d) ==
    CASE d = 0 -> "0" [] d = 1 -> "1" [] d = 2 -> "2" [] d = 3 -> "3"
      [] d = 4 -> "4" [] d = 5 -> "5" [] d = 6 -> "6" [] d = 7 -> "7"
      [] d = 8 -> "8" [] d = 9 -> "9"

\* format!("{}", n) of a usize
RECURSIVE Decimal(_)
Decimal(n) == IF n < 10 THEN <<Digit(n)>> ELSE Decimal(n \div 10) \o <<Digit(n % 10)>>

-----------------------------------------------------------------------------
(* converter.rs: constants.                                                *)

MERMAID_PLACEHOLDER ==
    <<"M","E","R","M","A","I","D","_","D","I","A","G","R","A","M","_",
      "P","L","A","C","E","H","O","L","D","E","R","_">>

\* the backquote character: a TLA+ string cannot hold it, so it gets a name
Backquote == "BACKQUOTE"

FenceOpen == <<Backquote, Backquote, Backquote, "m","e","r","m","a","i","d">>
FenceClose == <<Backquote, Backquote, Backquote>>

TitleMarker == <<"{","{","T","I","T","L","E","}","}">>
ContentMarker == <<"{","{","C","O","N","T","E","N","T","}","}">>

\* HTML_TEMPLATE with its static head (meta, style, script: no marker in them)
\* left out: <title>{{TITLE}}</title> ... <body>\n{{CONTENT}}\n</body>
HTML_TEMPLATE ==
    <<"<","t","i","t","l","e",">">> \o TitleMarker
    \o <<"<","/","t","i","t","l","e",">","\n","<","b","o","d","y",">","\n">>
    \o ContentMarker \o <<"\n","<","/","b","o","d","y",">">>

DefaultTitle == <<"D","o","c","u","m","e","n","t">>

DivOpen ==
    <<"<","d","i","v"," ","c","l","a","s","s","=","\"","m","e","r","m","a","i","d","\"",">","\n">>
DivClose == <<"\n","<","/","d","i","v",">">>

-----------------------------------------------------------------------------
(* converter.rs: extract_mermaid_blocks.                                   *)

ExtractInit ==
    [result |-> <<>>, mermaid_blocks |-> <<>>, in_mermaid |-> FALSE,
     mermaid_content |-> <<>>]

\* (mutation) the placeholder numbered from 1
PlaceholderLineFromOne(st) ==
    MERMAID_PLACEHOLDER \o Decimal(Len(st.mermaid_blocks) + 1) \o <<"\n">>

\* the placeholder line pushed when a block closes
PlaceholderLine(st) ==
    MERMAID_PLACEHOLDER \o Decimal(Len(st.mermaid_blocks)) \o <<"\n">>

\* (mutation) a line outside a fence copied trimmed
ExtractStepTrimsCopy(st, line) ==
    IF Trim(line) = FenceOpen
    THEN [st EXCEPT !.in_mermaid = TRUE, !.mermaid_content = <<>>]
    ELSE IF st.in_mermaid /\ Trim(line) = FenceClose
    THEN [st EXCEPT !.in_mermaid = FALSE,
                    !.result = st.result \o PlaceholderLine(st),
                    !.mermaid_blocks = Append(st.mermaid_blocks, st.mermaid_content)]
    ELSE IF st.in_mermaid
    THEN [st EXCEPT !.mermaid_content = st.mermaid_content \o line \o <<"\n">>]
    ELSE [st EXCEPT !.result = st.result \o Trim(line) \o <<"\n">>]

\* one iteration of the loop over content.lines()
ExtractStep(st, line) ==
    IF Trim(line) = FenceOpen
    THEN [st EXCEPT !.in_mermaid = TRUE, !.mermaid_content = <<>>]
    ELSE IF st.in_mermaid /\ Trim(line) = FenceClose
    THEN [st EXCEPT !.in_mermaid = FALSE,
                    !.result = st.result \o PlaceholderLine(st),
                    !.mermaid_blocks = Append(st.mermaid_blocks, st.mermaid_content)]
    ELSE IF st.in_mermaid
    THEN [st EXCEPT !.mermaid_content = st.mermaid_content \o line \o <<"\n">>]
    ELSE [st EXCEPT !.result = st.result \o line \o <<"\n">>]

\* the loop over the lines i..j, as the loop over the first half of them and
\* then, from the locals it leaves, the loop over the rest
RECURSIVE ExtractLoop(_, _, _, _)
ExtractLoop(st, ls, i, j) ==
    IF i > j \/ ~Evaluated(st) THEN st
    ELSE IF i = j THEN ExtractStep(st, ls[i])
    ELSE LET m == (i + j) \div 2
         IN  ExtractLoop(ExtractLoop(st, ls, i, m), ls, m + 1, j)

\* (mutation) a block still open at the end of the input stored like a closed one
ExtractStoresOpenBlock(c) ==
    LET ls == Lines(c)
        st == ExtractLoop(ExtractInit, ls, 1, Len(ls))
    IN  IF st.in_mermaid
        THEN [result |-> st.result \o PlaceholderLine(st),
              mermaid_blocks |-> Append(st.mermaid_blocks, st.mermaid_content)]
        ELSE [result |-> st.result, mermaid_blocks |-> st.mermaid_blocks]

\* extract_mermaid_blocks(content) -> (result, mermaid_blocks)
ExtractMermaidBlocks(c) ==
    LET ls == Lines(c)
        st == ExtractLoop(ExtractInit, ls, 1, Len(ls))
    IN  [result |-> st.result, mermaid_blocks |-> st.mermaid_blocks]

-----------------------------------------------------------------------------
(* converter.rs: extract_title.                                            *)

\* (mutation) any heading level taken for a title
HeadingPrefixAnyLevel == <<"#">>

\* trimmed.starts_with("# ")
HeadingPrefix == <<"#", " ">>

\* the loop over the lines i..j: what the first line to return gives, if any
RECURSIVE TitleLoop(_, _, _)
TitleLoop(ls, i, j) ==
    IF i > j THEN NoResult
    ELSE IF i = j
    THEN LET trimmed == Trim(ls[i])
         IN  IF StartsWith(trimmed, HeadingPrefix)
             THEN [tag |-> "some", title |-> Trim(SubSeq(trimmed, 3, Len(trimmed)))]
             ELSE NoResult
    ELSE LET m == (i + j) \div 2
             first == TitleLoop(ls, i, m)
         IN  IF first # NoResult THEN first ELSE TitleLoop(ls, m + 1, j)

ExtractTitle(c) ==
    LET ls == Lines(c)
        found == TitleLoop(ls, 1, Len(ls))
    IN  IF found = NoResult THEN DefaultTitle ELSE found.title

-----------------------------------------------------------------------------
(* Result<T, String>.                                                      *)

Ok(v) == [tag |-> "ok", val |-> v]
Err(m) == [tag |-> "err", msg |-> m]

-----------------------------------------------------------------------------
(* converter.rs: ExportFormat::from_str.                                   *)

UpperLetters ==
    <<"A","B","C","D","E","F","G","H","I","J","K","L","M","N","O","P","Q","R",
      "S","T","U","V","W","X","Y","Z">>
LowerLetters ==
    <<"a","b","c","d","e","f","g","h","i","j","k","l","m","n","o","p","q","r",
      "s","t","u","v","w","x","y","z">>

LowerChar(c) ==
    IF \E i \in 1..Len(UpperLetters) : UpperLetters[i] = c
    THEN LowerLetters[CHOOSE i \in 1..Len(UpperLetters) : UpperLetters[i] = c]
    ELSE c

\* (mutation) the token matched as given
ToLowercaseSkipped(s) == s

\* str::to_lowercase
ToLowercase(s) == [i \in 1..Len(s) |-> LowerChar(s[i])]

StrHtml == <<"h","t","m","l">>
StrPdf == <<"p","d","f">>

MsgUnsupported(s) ==
    <<"U","n","s","u","p","p","o","r","t","e","d"," ","f","o","r","m","a","t",":"," ">>
    \o s \o
    <<"."," ","S","u","p","p","o","r","t","e","d",":"," ","h","t","m","l",","," ","p","d","f">>

\* ExportFormat::from_str(s)
FromStr(s) ==
    LET lower == ToLowercase(s)
    IN  IF lower = StrHtml THEN Ok("Html")
        ELSE IF lower = StrPdf THEN Ok("Pdf")
        ELSE Err(MsgUnsupported(s))

-----------------------------------------------------------------------------
(* The shiva library (markdown parse, HTML generate), which the            *)
(* repository calls and does not hold: a line-by-line renderer that passes *)
(* text through unescaped, as the specification requires of it.            *)

ShivaOutcomes == {"ok", "parse_error", "generate_error"}

ShivaBlock(line) ==
    LET t == Trim(line)
    IN  IF t = <<>> THEN <<>>
        ELSE IF StartsWith(t, <<"#", " ">>)
        THEN <<"<","h","1",">">> \o Trim(SubSeq(t, 3, Len(t))) \o <<"<","/","h","1",">","\n">>
        ELSE IF StartsWith(t, <<"#", "#", " ">>)
        THEN <<"<","h","2",">">> \o Trim(SubSeq(t, 4, Len(t))) \o <<"<","/","h","2",">","\n">>
        ELSE <<"<","p",">">> \o t \o <<"<","/","p",">","\n">>

ShivaBlocks(ls) == FlattenRange([i \in 1..Len(ls) |-> ShivaBlock(ls[i])], 1, Len(ls))

\* markdown::Transformer::parse, then html::Transformer::generate
ShivaHtml(markdown) == ShivaBlocks(Lines(markdown))

-----------------------------------------------------------------------------
(* converter.rs: convert_markdown.                                         *)

MsgParse ==
    <<"F","a","i","l","e","d"," ","t","o"," ","p","a","r","s","e"," ",
      "m","a","r","k","d","o","w","n",":"," ">>
MsgGenerate ==
    <<"F","a","i","l","e","d"," ","t","o"," ","g","e","n","e","r","a","t","e"," ",
      "H","T","M","L",":"," ">>
MsgPdfArm ==
    <<"P","D","F"," ","f","o","r","m","a","t"," ","s","h","o","u","l","d"," ",
      "b","e"," ","h","a","n","d","l","e","d"," ","v","i","a"," ",
      "c","o","n","v","e","r","t","_","h","t","m","l","_","t","o","_","p","d","f">>

\* format!("{}{}", MERMAID_PLACEHOLDER, i)
Placeholder(i) == MERMAID_PLACEHOLDER \o Decimal(i)

\* format!("<div class=\"mermaid\">\n{}\n</div>", mermaid_code.trim())
MermaidDiv(mermaid_code) == DivOpen \o Trim(mermaid_code) \o DivClose

\* the body of the loop over mermaid_blocks.iter().enumerate(); i is 0-based
InjectStep(html_content, mermaid_blocks, i) ==
    Replace(html_content, Placeholder(i), MermaidDiv(mermaid_blocks[i + 1]))

\* the iterations i..j of the loop, as the first half of them and then the rest
RECURSIVE InjectLoop(_, _, _, _)
InjectLoop(html_content, mermaid_blocks, i, j) ==
    IF i > j \/ ~Evaluated(html_content) THEN html_content
    ELSE IF i = j THEN InjectStep(html_content, mermaid_blocks, i)
    ELSE LET m == (i + j) \div 2
         IN  InjectLoop(InjectLoop(html_content, mermaid_blocks, i, m),
                        mermaid_blocks, m + 1, j)

\* (mutation) the loop started at 1
InjectDiagramsFromOne(html_content, mermaid_blocks) ==
    InjectLoop(html_content, mermaid_blocks, 1, Len(mermaid_blocks) - 1)

\* the loop that puts the diagrams back: ascending i, from 0
InjectDiagrams(html_content, mermaid_blocks) ==
    InjectLoop(html_content, mermaid_blocks, 0, Len(mermaid_blocks) - 1)

\* HTML_TEMPLATE.replace("{{TITLE}}", &title).replace("{{CONTENT}}", &html_content)
StyledHtml(t, html_content) ==
    Replace(Replace(HTML_TEMPLATE, TitleMarker, t), ContentMarker, html_content)

\* convert_markdown(content, format); shiva is what the library calls answer.
\* An Ok also records the locals raw_html and html_content.
ConvertMarkdown(c, format, shiva) ==
    LET ex == ExtractMermaidBlocks(c)
        raw_html == ShivaHtml(ex.result)
        html_content == InjectDiagrams(raw_html, ex.mermaid_blocks)
    IN  IF shiva = "parse_error" THEN Err(MsgParse)
        ELSE IF format = "Pdf" THEN Err(MsgPdfArm)
        ELSE IF shiva = "generate_error" THEN Err(MsgGenerate)
        ELSE [tag |-> "ok",
              val |-> StyledHtml(ExtractTitle(c), html_content),
              raw_html |-> raw_html,
              html_content |-> html_content]

-----------------------------------------------------------------------------
(* The markdown inputs of a conversion run.                                *)

LiteralPlaceholder == MERMAID_PLACEHOLDER \o <<"0">>

LineAlphabet ==
    { FenceOpen,
      <<" ">> \o FenceClose \o <<" ">>,
      <<"#"," ","T">>,
      <<" ","#"," ","U"," ">>,
      <<"#","#"," ","S">>,
      <<"x","\r">>,
      LiteralPlaceholder,
      <<>> }

SeqsUpTo(S, n) == UNION {[1..k -> S] : k \in 0..n}

RECURSIVE JoinFrom(_, _)
JoinFrom(ls, i) ==
    IF i > Len(ls) THEN <<>>
    ELSE IF i = Len(ls) THEN ls[i]
    ELSE ls[i] \o <<"\n">> \o JoinFrom(ls, i + 1)

\* the lines joined by "\n", with a last "\n" or without
Join(ls, nl) == JoinFrom(ls, 1) \o (IF nl THEN <<"\n">> ELSE <<>>)

\* diagram k of a document: the one line " g<k> " in its fence, after a
\* paragraph "p<k>" when withText
Block(k, withText) ==
    (IF withText THEN <<"p">> \o Decimal(k) \o <<"\n">> ELSE <<>>)
        \o FenceOpen \o <<"\n">>
        \o <<" ", "g">> \o Decimal(k) \o <<" ", "\n">>
        \o FenceClose \o <<"\n">>

\* a document of the n diagrams 0..n-1
BlockDoc(n, withText) == FlattenRange([k \in 1..n |-> Block(k - 1, withText)], 1, n)

\* the end of a document whose last fence is never closed
OpenTail == FenceOpen \o <<"\n", " ", "l", "o", "s", "t", " ", "\n", "e", "n", "d">>

\* documents of up to two diagrams and then a fence that is never closed
OpenEndedDocs ==
    {BlockDoc(n, TRUE) \o OpenTail \o (IF nl THEN <<"\n">> ELSE <<>>) :
        n \in 0..2, nl \in BOOLEAN}

\* documents whose heading or text holds a marker of the template
MarkerDocs ==
    { <<"#", " ">> \o ContentMarker \o <<"\n", "x">>,
      <<"#", " ">> \o TitleMarker \o <<"\n">> \o ContentMarker,
      TitleMarker \o <<" ">> \o ContentMarker }

Docs ==
    {Join(ls, nl) : ls \in SeqsUpTo(LineAlphabet, MaxLines), nl \in BOOLEAN}
    \cup {BlockDoc(n, t) : n \in 0..MaxBlocks, t \in BOOLEAN}
    \cup OpenEndedDocs
    \cup MarkerDocs

FormatWords ==
    { StrHtml, StrPdf, <<"x","m","l">>, <<"d","o","c","x">>, <<"h","t","m">>,
      <<"p","d","f","x">>, <<" ","p","d","f">>, <<>> }

UpperChar(c) ==
    IF \E i \in 1..Len(LowerLetters) : LowerLetters[i] = c
    THEN UpperLetters[CHOOSE i \in 1..Len(LowerLetters) : LowerLetters[i] = c]
    ELSE c

\* every upper/lower-case spelling of a word
Spellings(w) ==
    {[i \in 1..Len(w) |-> IF up[i] THEN UpperChar(w[i]) ELSE w[i]] :
        up \in [1..Len(w) -> BOOLEAN]}

Tokens == UNION {Spellings(w) : w \in FormatWords}

-----------------------------------------------------------------------------
(* database.rs: the store. A collection row is [id, name], a document row  *)
(* [id, collection_id, content]; the other columns take no part here.      *)

Ids == 1..MaxId
CollectionNames == {"a", "b"}
StoredDocs == {BlockDoc(1, TRUE), <<"#", " ", "T">>}

MsgNoRows ==
    <<"Q","u","e","r","y"," ","r","e","t","u","r","n","e","d"," ","n","o"," ","r","o","w","s">>
MsgForeignKey ==
    <<"F","O","R","E","I","G","N"," ","K","E","Y"," ","c","o","n","s","t","r","a","i","n","t"," ",
      "f","a","i","l","e","d">>

\* whether SQLite enforces the schema's foreign keys on this connection: set by
\* the build of the SQLite library the manifest selects, not by these sources
ForeignKeysEnabled == TRUE

\* Database::init on an empty file: the two tables and the default collection
DbInit ==
    /\ collections = {[id |-> 1, name |-> "Default Collection"]}
    /\ documents = {}
    /\ nextCollectionId = 2
    /\ nextDocumentId = 1
    /\ dbLock = "free"
    /\ dbReturn = NoResult

\* (mutation) no ON DELETE CASCADE
DocumentsKept(docs, id) == docs

\* FOREIGN KEY (collection_id) REFERENCES collections(id) ON DELETE CASCADE:
\* the document rows left when collection id is deleted
DocumentsAfterDelete(docs, id) ==
    IF ForeignKeysEnabled THEN {d \in docs : d.collection_id # id} ELSE docs

\* the same clause on INSERT: a document row needs its collection
InsertAllowed(colls, collection_id) ==
    ForeignKeysEnabled => \E c \in colls : c.id = collection_id

\* Ok(changes > 0)
DeleteReturn(changes) == Ok(changes > 0)

\* a command's return value, with what it was called on: the id, whether a row
\* of that id existed before, and how many document rows went with a collection
Returned(op, id, existed, ret) ==
    [op |-> op, id |-> id, existed |-> existed, ret |-> ret, removed |-> 0]

\* a command takes the Mutex<Database> for its whole body
DbFree == dbLock = "free"

\* create_collection(name, description); ids bounds the rows a run inserts
CreateCollection(name, ids) ==
    /\ DbFree
    /\ nextCollectionId \in ids
    /\ collections' = collections \cup {[id |-> nextCollectionId, name |-> name]}
    /\ nextCollectionId' = nextCollectionId + 1
    /\ dbReturn' = Returned("create_collection", nextCollectionId, FALSE, Ok(nextCollectionId))
    /\ UNCHANGED <<documents, nextDocumentId, dbLock, exportVars, runVars>>

\* update_collection(id, name, description)
UpdateCollection(id, name) ==
    /\ DbFree
    /\ collections' = {IF c.id = id THEN [c EXCEPT !.name = name] ELSE c : c \in collections}
    /\ dbReturn' = Returned("update_collection", id, \E c \in collections : c.id = id,
                            IF \E c \in collections : c.id = id THEN Ok(id) ELSE Err(MsgNoRows))
    /\ UNCHANGED <<documents, nextCollectionId, nextDocumentId, dbLock, exportVars, runVars>>

\* delete_collection(id)
DeleteCollection(id) ==
    LET rows == {c \in collections : c.id = id}
    IN  /\ DbFree
        /\ collections' = collections \ rows
        /\ documents' = IF rows = {} THEN documents ELSE DocumentsAfterDelete(documents, id)
        /\ dbReturn' =
              [Returned("delete_collection", id, \E c \in collections : c.id = id,
                        DeleteReturn(Cardinality(rows)))
                  EXCEPT !.removed = Cardinality(documents) - Cardinality(documents')]
        /\ UNCHANGED <<nextCollectionId, nextDocumentId, dbLock, exportVars, runVars>>

\* create_document(collection_id, name, content); ids bounds the rows a run inserts
CreateDocument(collection_id, c, ids) ==
    /\ DbFree
    /\ nextDocumentId \in ids
    /\ IF InsertAllowed(collections, collection_id)
       THEN /\ documents' = documents \cup
                   {[id |-> nextDocumentId, collection_id |-> collection_id, content |-> c]}
            /\ nextDocumentId' = nextDocumentId + 1
            /\ dbReturn' = Returned("create_document", nextDocumentId, FALSE, Ok(nextDocumentId))
       ELSE /\ UNCHANGED <<documents, nextDocumentId>>
            /\ dbReturn' = Returned("create_document", nextDocumentId, FALSE, Err(MsgForeignKey))
    /\ UNCHANGED <<collections, nextCollectionId, dbLock, exportVars, runVars>>

\* update_document(id, name, content)
UpdateDocument(id, c) ==
    /\ DbFree
    /\ documents' = {IF d.id = id THEN [d EXCEPT !.content = c] ELSE d : d \in documents}
    /\ dbReturn' = Returned("update_document", id, \E d \in documents : d.id = id,
                            IF \E d \in documents : d.id = id THEN Ok(id) ELSE Err(MsgNoRows))
    /\ UNCHANGED <<collections, nextCollectionId, nextDocumentId, dbLock, exportVars, runVars>>

\* delete_document(id)
DeleteDocument(id) ==
    LET rows == {d \in documents : d.id = id}
    IN  /\ DbFree
        /\ documents' = documents \ rows
        /\ dbReturn' = Returned("delete_document", id, \E d \in documents : d.id = id,
                                DeleteReturn(Cardinality(rows)))
        /\ UNCHANGED <<collections, nextCollectionId, nextDocumentId, dbLock, exportVars, runVars>>

\* get_document(id) -> Option<Document>
GetDocument(id) ==
    IF \E d \in documents : d.id = id
    THEN [tag |-> "some", content |-> (CHOOSE d \in documents : d.id = id).content]
    ELSE NoResult

-----------------------------------------------------------------------------
(* converter.rs: check_chrome_available, convert_html_to_pdf; main.rs:     *)
(* check_pdf_available, export_document.                                   *)

Tasks == {"t1"}
\* the rows of the store in a run of the commands with exports
SysCollectionIds == {1, 2}
SysDocumentIds == {1}
Paths == {"out"}
ExportTokens == {StrHtml, <<"P","d","f">>, <<"x","m","l">>}

NoFile == [tag |-> "none"]

MsgChrome ==
    <<"C","h","r","o","m","e",","," ","C","h","r","o","m","i","u","m",","," ","o","r"," ",
      "E","d","g","e"," ","i","s"," ","r","e","q","u","i","r","e","d"," ","f","o","r"," ",
      "P","D","F"," ","e","x","p","o","r","t","."," ","P","l","e","a","s","e"," ",
      "i","n","s","t","a","l","l"," ","a"," ","C","h","r","o","m","i","u","m","-",
      "b","a","s","e","d"," ","b","r","o","w","s","e","r",".">>
MsgConfig ==
    <<"F","a","i","l","e","d"," ","t","o"," ","b","u","i","l","d"," ","b","r","o","w","s","e","r"," ",
      "c","o","n","f","i","g",":"," ">>
MsgLaunch ==
    <<"F","a","i","l","e","d"," ","t","o"," ","l","a","u","n","c","h"," ","b","r","o","w","s","e","r",":"," ">>
MsgPage ==
    <<"F","a","i","l","e","d"," ","t","o"," ","c","r","e","a","t","e"," ","p","a","g","e",":"," ">>
MsgContent ==
    <<"F","a","i","l","e","d"," ","t","o"," ","s","e","t"," ","H","T","M","L"," ",
      "c","o","n","t","e","n","t",":"," ">>
MsgPdf ==
    <<"F","a","i","l","e","d"," ","t","o"," ","g","e","n","e","r","a","t","e"," ","P","D","F",":"," ">>
MsgWrite ==
    <<"F","a","i","l","e","d"," ","t","o"," ","w","r","i","t","e"," ","f","i","l","e",":"," ">>

\* format!("Document {} not found", document_id)
MsgNotFound(id) ==
    <<"D","o","c","u","m","e","n","t"," ">> \o Decimal(id) \o <<" ","n","o","t"," ","f","o","u","n","d">>

\* check_chrome_available(): the executable's path, or the install message
CheckChromeAvailable ==
    IF chromeInstalled THEN Ok("executable") ELSE Err(MsgChrome)

\* check_chrome_available().map(|_| true)
ProbeResult ==
    IF CheckChromeAvailable.tag = "ok" THEN Ok(TRUE) ELSE CheckChromeAvailable

\* check_pdf_available()
CheckPdfAvailable ==
    /\ probe' = ProbeResult
    /\ UNCHANGED <<dbVars, exports, fs, chromeInstalled, runVars>>

IdleExport ==
    [pc |-> "idle", document_id |-> 0, format |-> <<>>, output_path |-> "",
     document |-> NoResult, export_format |-> "none", bytes |-> NoFile,
     result |-> NoResult, stages |-> <<>>, browser |-> "none", handler |-> "none"]

ExportInit ==
    /\ exports = [t \in Tasks |-> IdleExport]
    /\ fs = [p \in Paths |-> NoFile]
    /\ chromeInstalled \in BOOLEAN
    /\ probe = NoResult

\* the export returns: the result, and what leaving the scope does
Return(e, r) == [e EXCEPT !.pc = "done", !.result = r]

\* an early return of convert_html_to_pdf after the launch: the browser value is
\* dropped with the scope, the JoinHandle of the handler task is dropped too,
\* which leaves the task running
PdfFail(e, m) ==
    [Return(e, Err(m)) EXCEPT !.browser = "closed"]

\* drop(browser); handler_task.abort(); Ok(pdf_bytes)
PdfSucceed(e) ==
    [e EXCEPT !.pc = "write", !.browser = "closed", !.handler = "aborted",
              !.stages = e.stages \o <<"print", "close">>,
              !.bytes = [tag |-> "file", kind |-> "pdf", data |-> e.bytes.data]]

\* export_document(document_id, format, output_path) is invoked
ExportInvoke(t, id, fmt, path) ==
    /\ exports[t].pc = "idle"
    /\ exports' = [exports EXCEPT ![t] =
          [@ EXCEPT !.pc = "lock", !.document_id = id, !.format = fmt, !.output_path = path]]
    /\ UNCHANGED <<dbVars, fs, chromeInstalled, probe, runVars>>

\* db.lock()
ExportLock(t) ==
    /\ exports[t].pc = "lock"
    /\ DbFree
    /\ dbLock' = t
    /\ exports' = [exports EXCEPT ![t].pc = "fetch"]
    /\ UNCHANGED <<collections, documents, nextCollectionId, nextDocumentId, dbReturn,
                   fs, chromeInstalled, probe, runVars>>

\* (mutation) the guard kept after the block
ExportFetchKeepsGuard(t) ==
    LET e == exports[t]
        doc == GetDocument(e.document_id)
    IN  /\ e.pc = "fetch"
        /\ dbLock = t
        /\ exports' = [exports EXCEPT ![t] =
              IF doc = NoResult THEN Return(e, Err(MsgNotFound(e.document_id)))
              ELSE [e EXCEPT !.pc = "format", !.document = doc]]
        /\ UNCHANGED <<dbVars, fs, chromeInstalled, probe, runVars>>

\* db.get_document(document_id)...ok_or_else(not found)?, and the guard dropped
\* at the end of the block
ExportFetch(t) ==
    LET e == exports[t]
        doc == GetDocument(e.document_id)
    IN  /\ e.pc = "fetch"
        /\ dbLock = t
        /\ dbLock' = "free"
        /\ exports' = [exports EXCEPT ![t] =
              IF doc = NoResult THEN Return(e, Err(MsgNotFound(e.document_id)))
              ELSE [e EXCEPT !.pc = "format", !.document = doc]]
        /\ UNCHANGED <<collections, documents, nextCollectionId, nextDocumentId, dbReturn,
                       fs, chromeInstalled, probe, runVars>>

\* (mutation) an unknown format exported as HTML
ExportParseFormatFallsBack(t) ==
    LET e == exports[t]
        r == FromStr(e.format)
    IN  /\ e.pc = "format"
        /\ exports' = [exports EXCEPT ![t] =
              [e EXCEPT !.pc = "convert",
                        !.export_format = IF r.tag = "err" THEN "Html" ELSE r.val]]
        /\ UNCHANGED <<dbVars, fs, chromeInstalled, probe, runVars>>

\* let export_format = ExportFormat::from_str(&format)?
ExportParseFormat(t) ==
    LET e == exports[t]
        r == FromStr(e.format)
    IN  /\ e.pc = "format"
        /\ exports' = [exports EXCEPT ![t] =
              IF r.tag = "err" THEN Return(e, r)
              ELSE [e EXCEPT !.pc = "convert", !.export_format = r.val]]
        /\ UNCHANGED <<dbVars, fs, chromeInstalled, probe, runVars>>

\* the stages of convert_markdown that ran, by what the library answered
ConvertStages(shiva) ==
    IF shiva = "parse_error" THEN <<"extract", "parse">>
    ELSE IF shiva = "generate_error" THEN <<"extract", "parse", "generate">>
    ELSE <<"extract", "parse", "generate", "compose">>

\* convert_markdown(&document.content, &ExportFormat::Html)?, in both arms
ExportConvert(t) ==
    LET e == exports[t]
    IN  /\ e.pc = "convert"
        /\ \E shiva \in ShivaOutcomes :
              LET r == ConvertMarkdown(e.document.content, "Html", shiva)
                  ran == [e EXCEPT !.stages = e.stages \o ConvertStages(shiva)]
              IN  exports' = [exports EXCEPT ![t] =
                    IF r.tag = "err" THEN Return(ran, Err(r.msg))
                    ELSE [ran EXCEPT
                            !.pc = IF e.export_format = "Pdf" THEN "pdf_config" ELSE "write",
                            !.bytes = [tag |-> "file", kind |-> "html", data |-> r.val]]]
        /\ UNCHANGED <<dbVars, fs, chromeInstalled, probe, runVars>>

\* fs::write(&output_path, bytes), and Ok(())
ExportWrite(t) ==
    LET e == exports[t]
    IN  /\ e.pc = "write"
        /\ \E io \in {"ok", "error"} :
              IF io = "ok"
              THEN /\ fs' = [fs EXCEPT ![e.output_path] = e.bytes]
                   /\ exports' = [exports EXCEPT ![t] =
                         Return([e EXCEPT !.stages = e.stages \o <<"write">>], Ok("unit"))]
              ELSE /\ fs' = fs
                   /\ exports' = [exports EXCEPT ![t] =
                         Return([e EXCEPT !.stages = e.stages \o <<"write">>], Err(MsgWrite))]
        /\ UNCHANGED <<dbVars, chromeInstalled, probe, runVars>>

\* BrowserConfig::builder()...build()?, then Browser::launch(config) is awaited.
\* Whether the library looks for the executable in build() or in launch() is its
\* own matter: with no browser installed either may be the call that fails.
PdfConfig(t) ==
    LET e == exports[t]
    IN  /\ e.pc = "pdf_config"
        /\ \/ exports' = [exports EXCEPT ![t] =
                 [e EXCEPT !.pc = "pdf_launch", !.stages = e.stages \o <<"launch">>]]
           \/ /\ ~chromeInstalled
              /\ exports' = [exports EXCEPT ![t] = Return(e, Err(MsgConfig))]
        /\ UNCHANGED <<dbVars, fs, chromeInstalled, probe, runVars>>

\* Browser::launch(config).await?, then tokio::spawn of the handler task, then
\* browser.new_page("about:blank") is awaited
PdfLaunch(t) ==
    LET e == exports[t]
    IN  /\ e.pc = "pdf_launch"
        /\ \/ /\ chromeInstalled
              /\ exports' = [exports EXCEPT ![t] =
                    [e EXCEPT !.pc = "pdf_page", !.browser = "running", !.handler = "running",
                              !.stages = e.stages \o <<"page">>]]
           \/ exports' = [exports EXCEPT ![t] = Return(e, Err(MsgLaunch))]
        /\ UNCHANGED <<dbVars, fs, chromeInstalled, probe, runVars>>

\* new_page(...).await?, then page.set_content(html) is awaited
PdfPage(t) ==
    LET e == exports[t]
    IN  /\ e.pc = "pdf_page"
        /\ \/ exports' = [exports EXCEPT ![t] =
                 [e EXCEPT !.pc = "pdf_content", !.stages = e.stages \o <<"content">>]]
           \/ exports' = [exports EXCEPT ![t] = PdfFail(e, MsgPage)]
        /\ UNCHANGED <<dbVars, fs, chromeInstalled, probe, runVars>>

\* (mutation) the page printed with no settling delay
PdfContentThenPrint(t) ==
    LET e == exports[t]
    IN  /\ e.pc = "pdf_content"
        /\ \/ exports' = [exports EXCEPT ![t] =
                 [e EXCEPT !.pc = "pdf_print", !.stages = e.stages \o <<"settle">>]]
           \/ exports' = [exports EXCEPT ![t] = PdfFail(e, MsgContent)]
        /\ UNCHANGED <<dbVars, fs, chromeInstalled, probe, runVars>>

\* set_content(html).await?, then the sleep of 1000 ms is awaited
PdfContent(t) ==
    LET e == exports[t]
    IN  /\ e.pc = "pdf_content"
        /\ \/ exports' = [exports EXCEPT ![t] =
                 [e EXCEPT !.pc = "pdf_sleep", !.stages = e.stages \o <<"settle">>]]
           \/ exports' = [exports EXCEPT ![t] = PdfFail(e, MsgContent)]
        /\ UNCHANGED <<dbVars, fs, chromeInstalled, probe, runVars>>

\* the sleep ends, then page.pdf(pdf_params) is awaited
PdfSleep(t) ==
    LET e == exports[t]
    IN  /\ e.pc = "pdf_sleep"
        /\ exports' = [exports EXCEPT ![t].pc = "pdf_print"]
        /\ UNCHANGED <<dbVars, fs, chromeInstalled, probe, runVars>>

\* page.pdf(pdf_params).await?, then the close and Ok(pdf_bytes)
PdfPrint(t) ==
    LET e == exports[t]
    IN  /\ e.pc = "pdf_print"
        /\ \/ exports' = [exports EXCEPT ![t] = PdfSucceed(e)]
           \/ exports' = [exports EXCEPT ![t] =
                 PdfFail([e EXCEPT !.stages = e.stages \o <<"print">>], MsgPdf)]
        /\ UNCHANGED <<dbVars, fs, chromeInstalled, probe, runVars>>

\* the spawned task, while let Some(_) = handler.next().await {}: its loop ends
\* when the handler's stream does, which the library may do once the browser is
\* gone
HandlerEnds(t) ==
    /\ exports[t].handler = "running"
    /\ exports[t].browser = "closed"
    /\ exports' = [exports EXCEPT ![t].handler = "finished"]
    /\ UNCHANGED <<dbVars, fs, chromeInstalled, probe, runVars>>

Init == DbInit /\ ExportInit /\ ConvIdle /\ FmtIdle

Next ==
    \/ \E name \in CollectionNames : CreateCollection(name, SysCollectionIds)
    \/ \E id \in SysCollectionIds, name \in CollectionNames : UpdateCollection(id, name)
    \/ \E id \in SysCollectionIds : DeleteCollection(id)
    \/ \E id \in SysCollectionIds, c \in StoredDocs :
          CreateDocument(id, c, SysDocumentIds)
    \/ \E id \in SysDocumentIds, c \in StoredDocs : UpdateDocument(id, c)
    \/ \E id \in SysDocumentIds : DeleteDocument(id)
    \/ CheckPdfAvailable
    \/ \E t \in Tasks, id \in SysDocumentIds, fmt \in ExportTokens, path \in Paths :
          ExportInvoke(t, id, fmt, path)
    \/ \E t \in Tasks : ExportLock(t)
    \/ \E t \in Tasks : ExportFetch(t)
    \/ \E t \in Tasks : ExportParseFormat(t)
    \/ \E t \in Tasks : ExportConvert(t)
    \/ \E t \in Tasks : ExportWrite(t)
    \/ \E t \in Tasks : PdfConfig(t)
    \/ \E t \in Tasks : PdfLaunch(t)
    \/ \E t \in Tasks : PdfPage(t)
    \/ \E t \in Tasks : PdfContent(t)
    \/ \E t \in Tasks : PdfSleep(t)
    \/ \E t \in Tasks : PdfPrint(t)
    \/ \E t \in Tasks : HandlerEnds(t)

Spec == Init /\ [][Next]_vars

-----------------------------------------------------------------------------
(* Concurrent exports: two invocations of export_document and the commands *)
(* on the one document, over the one Mutex<Database>.                      *)

LockTasks == {"t1", "t2"}
LockDocs == {<<"#", " ", "T">>}
LockTokens == {StrHtml, <<"P", "d", "f">>}

LockInit ==
    /\ DbInit
    /\ exports = [t \in LockTasks |-> IdleExport]
    /\ fs = [p \in Paths |-> NoFile]
    /\ chromeInstalled \in BOOLEAN
    /\ probe = NoResult
    /\ ConvIdle /\ FmtIdle

LockNext ==
    \/ \E c \in LockDocs : CreateDocument(1, c, SysDocumentIds)
    \/ \E id \in SysDocumentIds, c \in LockDocs : UpdateDocument(id, c)
    \/ \E id \in SysDocumentIds : DeleteDocument(id)
    \/ \E t \in LockTasks, id \in SysDocumentIds, fmt \in LockTokens, path \in Paths :
          ExportInvoke(t, id, fmt, path)
    \/ \E t \in LockTasks : ExportLock(t)
    \/ \E t \in LockTasks : ExportFetch(t)
    \/ \E t \in LockTasks : ExportParseFormat(t)
    \/ \E t \in LockTasks : ExportConvert(t)
    \/ \E t \in LockTasks : ExportWrite(t)
    \/ \E t \in LockTasks : PdfConfig(t)
    \/ \E t \in LockTasks : PdfLaunch(t)
    \/ \E t \in LockTasks : PdfPage(t)
    \/ \E t \in LockTasks : PdfContent(t)
    \/ \E t \in LockTasks : PdfSleep(t)
    \/ \E t \in LockTasks : PdfPrint(t)
    \/ \E t \in LockTasks : HandlerEnds(t)

LockSpec == LockInit /\ [][LockNext]_vars

-----------------------------------------------------------------------------
(* Store runs: the six commands that write the store, on ids 1..MaxId.     *)

DbRunInit == DbInit /\ IdleExports /\ ConvIdle /\ FmtIdle

DbNext ==
    \/ \E name \in CollectionNames : CreateCollection(name, Ids)
    \/ \E id \in Ids, name \in CollectionNames : UpdateCollection(id, name)
    \/ \E id \in Ids : DeleteCollection(id)
    \/ \E id \in Ids, c \in StoredDocs : CreateDocument(id, c, Ids)
    \/ \E id \in Ids, c \in StoredDocs : UpdateDocument(id, c)
    \/ \E id \in Ids : DeleteDocument(id)

DbSpec == DbRunInit /\ [][DbNext]_vars

-----------------------------------------------------------------------------
(* Conversion runs: one markdown input through extract_mermaid_blocks,     *)
(* extract_title and convert_markdown.                                     *)

ConvInit ==
    /\ content \in Docs
    /\ convPc = "new"
    /\ extracted = NoResult
    /\ title = NoResult
    /\ converted = NoResult
    /\ FmtIdle
    /\ SysIdle

CallExtract ==
    /\ convPc = "new"
    /\ extracted' = Ok(ExtractMermaidBlocks(content))
    /\ convPc' = "extracted"
    /\ UNCHANGED <<content, title, converted, fmtVars, dbVars, exportVars>>

CallTitle ==
    /\ convPc = "extracted"
    /\ title' = Ok(ExtractTitle(content))
    /\ convPc' = "titled"
    /\ UNCHANGED <<content, extracted, converted, fmtVars, dbVars, exportVars>>

CallConvert ==
    /\ convPc = "titled"
    /\ \E format \in {"Html", "Pdf"}, shiva \in ShivaOutcomes :
          converted' = ConvertMarkdown(content, format, shiva)
    /\ convPc' = "converted"
    /\ UNCHANGED <<content, extracted, title, fmtVars, dbVars, exportVars>>

ConvNext == CallExtract \/ CallTitle \/ CallConvert

ConvSpec == ConvInit /\ [][ConvNext]_vars

-----------------------------------------------------------------------------
(* Format runs: one token through ExportFormat::from_str.                  *)

FmtInit ==
    /\ token \in Tokens
    /\ parsed = NoResult
    /\ ConvIdle
    /\ SysIdle

CallFromStr ==
    /\ parsed = NoResult
    /\ parsed' = FromStr(token)
    /\ UNCHANGED <<token, convVars, dbVars, exportVars>>

FmtNext == CallFromStr

FmtSpec == FmtInit /\ [][FmtNext]_vars

-----------------------------------------------------------------------------
(* Claims about the conversion functions (ConvSpec, FmtSpec).              *)

IsOpenLine(l) == Trim(l) = FenceOpen
IsCloseLine(l) == Trim(l) = FenceClose

OpenIdx(ls) == {i \in 1..Len(ls) : IsOpenLine(ls[i])}
ClosesAfter(ls, o) == {c \in (o + 1)..Len(ls) : IsCloseLine(ls[c])}
CloseOf(ls, o) == Min(ClosesAfter(ls, o))

\* every opening fence is closed later, and no fence opens inside another
WellFormedFences(ls) ==
    \A o \in OpenIdx(ls) :
        /\ ClosesAfter(ls, o) # {}
        /\ \A j \in (o + 1)..CloseOf(ls, o) : ~IsOpenLine(ls[j])

\* the 0-based index of the fence opened at line o
Rank(ls, o) == Cardinality({p \in OpenIdx(ls) : p < o})

\* the lines i..j, each followed by a newline
ConcatNl(ls, i, j) == FlattenRange([k \in i..j |-> ls[k] \o <<"\n">>], i, j)

\* what line i of a well-formed input leaves in the processed markdown: the
\* line closing fence k leaves placeholder k, a line in a fence nothing, any
\* other line itself
ExpectedLine(ls, i) ==
    LET closed == {o \in OpenIdx(ls) : o < i /\ CloseOf(ls, o) = i}
        inside == \E o \in OpenIdx(ls) : o <= i /\ i < CloseOf(ls, o)
    IN  IF closed # {}
        THEN Placeholder(Rank(ls, CHOOSE o \in closed : TRUE)) \o <<"\n">>
        ELSE IF inside THEN <<>>
        ELSE ls[i] \o <<"\n">>

\* the processed markdown of a well-formed input
ExpectedProcessed(ls) == FlattenRange([i \in 1..Len(ls) |-> ExpectedLine(ls, i)], 1, Len(ls))

PrefixLines(s) ==
    LET ls == Lines(s) IN {i \in 1..Len(ls) : StartsWith(ls[i], MERMAID_PLACEHOLDER)}

InCapture(ls, i) ==
    LET before == {o \in OpenIdx(ls) : o < i}
    IN  before # {} /\
        \A c \in ((CHOOSE o \in before : \A p \in before : p <= o) + 1)..(i - 1) :
            ~IsCloseLine(ls[c])

\* a line copied to the processed markdown
Outside(ls, i) == ~IsOpenLine(ls[i]) /\ ~InCapture(ls, i)

\* a line that puts a line into the processed markdown: a line copied, or the
\* line closing a capture, where the placeholder goes
Emits(ls, i) == ~IsOpenLine(ls[i]) /\ (InCapture(ls, i) => IsCloseLine(ls[i]))

\* which line of the processed markdown line i puts there
OutPos(ls, i) == Cardinality({j \in 1..i : Emits(ls, j)})

\* the text with a "\n" after its last line when it has none
NewlineNormalized(s) ==
    IF s = <<>> \/ s[Len(s)] = "\n" THEN s ELSE s \o <<"\n">>

\* the processed markdown cut at its "\n"s, nothing dropped from a line
RawLines(s) == SplitLines(s, FALSE)

\* C4: an input with no diagram fence gives no diagram and a processed markdown
\* that is the input's lines, verbatim and in order, each followed by a newline
\* (the input itself once its last line ends in a newline, when it has no
\* carriage return); and for every input the lines outside capture mode are
\* copied verbatim, in order.
C4_NoFenceUnchanged ==
    extracted # NoResult =>
        LET ls == Lines(content)
            ex == extracted.val
        IN  /\ OpenIdx(ls) = {} =>
                  /\ ex.mermaid_blocks = <<>>
                  /\ ex.result = ConcatNl(ls, 1, Len(ls))
                  /\ (\A i \in 1..Len(content) : content[i] # "\r") =>
                        ex.result = NewlineNormalized(content)
            /\ ex.result = <<>> \/ ex.result[Len(ex.result)] = "\n"
            /\ LET out == RawLines(ex.result)
               IN  /\ Len(out) = Cardinality({i \in 1..Len(ls) : Emits(ls, i)})
                   /\ \A i \in 1..Len(ls) : Outside(ls, i) => out[OutPos(ls, i)] = ls[i]

C4_Witness ==
    /\ extracted # NoResult
    /\ OpenIdx(Lines(content)) = {}
    /\ Len(Lines(content)) = 3
    /\ extracted.val.result # content
    /\ Lines(content)[2] = <<" ", "#", " ", "U", " ">>

HeadingIdx(ls) == {i \in 1..Len(ls) : StartsWith(Trim(ls[i]), <<"#", " ">>)}

\* C5: the title is the trimmed text after "# " of the first line whose trimmed
\* form starts with "# "; "Document" when there is none; a "## " line never
\* gives it.
C5_TitleFirstHeading ==
    title # NoResult =>
        LET ls == Lines(content)
            H == HeadingIdx(ls)
        IN  /\ H = {} => title.val = DefaultTitle
            /\ H # {} =>
                  LET t == Trim(ls[Min(H)])
                  IN  title.val = Trim(SubSeq(t, 3, Len(t)))
            /\ \A i \in 1..Len(ls) :
                  StartsWith(Trim(ls[i]), <<"#", "#", " ">>) => i \notin H

C5_Witness ==
    /\ title # NoResult
    /\ Lines(content) = << <<"#","#"," ","S">>, <<" ","#"," ","U"," ">>, <<"#"," ","T">> >>
    /\ title.val = <<"U">>

\* C6: every upper/lower-case spelling of "html" parses to Html and of "pdf" to
\* Pdf; every other token gives an error whose message names "html, pdf", never
\* a variant.
C6_FromStrCaseInsensitive ==
    parsed # NoResult =>
        /\ token \in Spellings(StrHtml) => parsed = Ok("Html")
        /\ token \in Spellings(StrPdf) => parsed = Ok("Pdf")
        /\ token \notin (Spellings(StrHtml) \cup Spellings(StrPdf)) =>
              /\ parsed.tag = "err"
              /\ Contains(parsed.msg, <<"h","t","m","l",","," ","p","d","f">>)
              /\ token = <<>> \/ Contains(parsed.msg, token)

C6_Witness ==
    /\ parsed = Ok("Html")
    /\ token = <<"H","t","M","l">>

\* C2 (as claimed): no HTML document returned by convert_markdown holds the
\* placeholder prefix.
C2_NoResidualPrefix ==
    (converted # NoResult /\ converted.tag = "ok") =>
        ~Contains(converted.val, MERMAID_PLACEHOLDER)

\* C2 (amended): for a markdown input that does not itself hold the placeholder
\* prefix, the HTML document returned by convert_markdown holds no occurrence of
\* it: every placeholder that extraction emitted has been substituted.
C2_NoResidualPrefixUnlessInInput ==
    (converted # NoResult /\ converted.tag = "ok"
        /\ ~Contains(content, MERMAID_PLACEHOLDER)) =>
        ~Contains(converted.val, MERMAID_PLACEHOLDER)

C2_Witness ==
    /\ converted # NoResult /\ converted.tag = "ok"
    /\ ~Contains(content, MERMAID_PLACEHOLDER)
    /\ Len(extracted.val.mermaid_blocks) >= 2
    /\ Contains(converted.raw_html, Placeholder(1))

DigitChars == {"0", "1", "2", "3", "4", "5", "6", "7", "8", "9"}

\* the end of the run of digits that starts at position i
RECURSIVE DigitsEnd(_, _)
DigitsEnd(s, i) == IF i <= Len(s) /\ s[i] \in DigitChars THEN DigitsEnd(s, i + 1) ELSE i - 1

\* where a placeholder token starts
TokenStarts(s) == {i \in 1..Len(s) : MatchAt(s, MERMAID_PLACEHOLDER, i)}

\* the blocks a whole token (the prefix and all the digits after it) names
TokenBlocks(s, blocks, i) ==
    LET d == i + Len(MERMAID_PLACEHOLDER)
    IN  {k \in 0..(Len(blocks) - 1) : Decimal(k) = SubSeq(s, d, DigitsEnd(s, d))}

\* where the token that starts at i ends: after its digits when it names a
\* block, after the prefix when it names none
TokenEnd(s, blocks, i) ==
    LET d == i + Len(MERMAID_PLACEHOLDER)
    IN  IF TokenBlocks(s, blocks, i) = {} THEN d - 1 ELSE DigitsEnd(s, d)

\* each whole placeholder token that names a block gives way to that block's
\* container; the text around the tokens stays
WholeTokenInject(s, blocks) ==
    LET starts == TokenStarts(s)
        n == Cardinality(starts)
        at == [k \in 1..n |-> Nth(starts, k)]
        rest(k) == IF k = 0 THEN 1 ELSE TokenEnd(s, blocks, at[k]) + 1
        piece == [k \in 1..n |->
                    SubSeq(s, rest(k - 1), at[k] - 1)
                    \o (IF TokenBlocks(s, blocks, at[k]) = {}
                          THEN MERMAID_PLACEHOLDER
                          ELSE MermaidDiv(blocks[(CHOOSE b \in TokenBlocks(s, blocks, at[k]) : TRUE) + 1]))]
    IN  FlattenRange(piece, 1, n) \o SubSeq(s, rest(n), Len(s))

\* C10 (as claimed): in the composed body every occurrence of block i's
\* placeholder token is a container wrapping the trimmed source of block i, for
\* every number of diagrams: no other block's source, no text left over.
C10_EachPlaceholderOwnBlock ==
    (converted # NoResult /\ converted.tag = "ok") =>
        converted.html_content =
            WholeTokenInject(converted.raw_html, extracted.val.mermaid_blocks)

-----------------------------------------------------------------------------
(* Claims about the store and the export (DbSpec, Spec).                   *)

\* the export of task t has returned from convert_html_to_pdf
PdfReturned(e) == e.pc \in {"write", "done"}

\* C1 (as claimed): whenever convert_html_to_pdf returns after the browser was
\* launched, on success or on any failure, the browser process and the handler
\* task are both terminated.
C1_BrowserAndHandlerTerminated ==
    \A t \in Tasks :
        LET e == exports[t]
        IN  (PdfReturned(e) /\ e.browser # "none") =>
                /\ e.browser = "closed"
                /\ e.handler \in {"aborted", "finished"}

UnknownFormat(fmt) == fmt \notin (Spellings(StrHtml) \cup Spellings(StrPdf))

Wrote(e) == \E i \in 1..Len(e.stages) : e.stages[i] = "write"

C8_UnavailableReported ==
    ~chromeInstalled =>
        /\ probe # NoResult => probe = Ok(FALSE)
        /\ \A t \in Tasks :
              LET e == exports[t]
              IN  (e.pc = "done" /\ e.export_format = "Pdf" /\ Len(e.stages) >= 4) =>
                      e.result = Err(MsgChrome)

PdfOrder == <<"launch", "page", "content", "settle", "print", "close">>

IsPdfStage(s) == \E i \in 1..Len(PdfOrder) : PdfOrder[i] = s

\* the steps of the render an export has begun, in the order it began them
PdfStages(e) == SelectSeq(e.stages, IsPdfStage)

\* how many steps had begun when the render returned the error
BegunAt(r) ==
    CASE r = Err(MsgConfig) -> 0
      [] r = Err(MsgLaunch) -> 1
      [] r = Err(MsgPage) -> 2
      [] r = Err(MsgContent) -> 3
      [] r = Err(MsgPdf) -> 5

PdfFailed(e) ==
    e.result \in {Err(MsgConfig), Err(MsgLaunch), Err(MsgPage), Err(MsgContent), Err(MsgPdf)}

C11_State ==
    \A t \in Tasks :
        LET e == exports[t]
            p == PdfStages(e)
        IN  /\ Len(p) <= Len(PdfOrder) /\ p = SubSeq(PdfOrder, 1, Len(p))
            /\ (Wrote(e) /\ e.export_format = "Pdf") => p = PdfOrder
            /\ PdfFailed(e) =>
                  /\ e.pc = "done"
                  /\ Len(p) = BegunAt(e.result)
                  /\ ~Wrote(e)
                  /\ (\A u \in Tasks \ {t} : ~Wrote(exports[u])) =>
                        fs[e.output_path] = NoFile

C11_Step ==
    \A t \in Tasks :
        LET e == exports[t]
            f == exports'[t]
        IN  /\ (f.pc = "pdf_print" /\ e.pc # "pdf_print") =>
                  (e.pc = "pdf_sleep" /\ PdfStages(e) = SubSeq(PdfOrder, 1, 4))
            /\ Len(PdfStages(f)) > 4 => e.pc \in {"pdf_print", "write", "done"}
            /\ e.pc = "done" =>
                  (f.pc = "done" /\ f.stages = e.stages /\ f.result = e.result)

\* C11: the steps of a PDF render begin in the order launch, page, content,
\* settling delay, print, close, each at most once; the print is begun only from
\* the elapsed settling delay that followed the content; a step that fails ends
\* the export with its error, no later step begun and nothing written.
C11_PdfFixedOrder == []C11_State /\ [][C11_Step]_vars

C11_Witness ==
    \E t \in Tasks :
        /\ exports[t].pc = "done"
        /\ exports[t].result = Err(MsgPdf)
        /\ PdfStages(exports[t]) = SubSeq(PdfOrder, 1, 5)
        /\ fs[exports[t].output_path] = NoFile

-----------------------------------------------------------------------------
(* Claims about a fence that is never closed (ConvSpec).                   *)

Max(S) == CHOOSE x \in S : \A y \in S : y <= x

LastOpen(ls) == Max(OpenIdx(ls))

\* the last opening fence has no closing line after it
Unterminated(ls) == OpenIdx(ls) # {} /\ ClosesAfter(ls, LastOpen(ls)) = {}

\* the lines that close a capture
CloseEvents(ls) == {c \in 1..Len(ls) : IsCloseLine(ls[c]) /\ InCapture(ls, c)}

\* the 0-based index of the block that line c closes
CloseRank(ls, c) == Cardinality({d \in CloseEvents(ls) : d < c})

\* the opening line of the block that line c closes
OpenBefore(ls, c) == Max({o \in OpenIdx(ls) : o < c})

\* C12: for an input whose last diagram fence is never closed, extraction
\* returns; the processed markdown holds what the lines before that opening
\* fence put there and nothing for it or for a line after it (no copy, no
\* placeholder); the diagram sequence holds the blocks closed before it, each
\* with its lines and its placeholder, and no entry for it.
C12_UnterminatedFenceDropped ==
    (extracted # NoResult /\ Unterminated(Lines(content))) =>
        LET ls == Lines(content)
            o == LastOpen(ls)
            ex == extracted.val
            out == RawLines(ex.result)
            E == CloseEvents(ls)
        IN  /\ extracted.tag = "ok"
            /\ \A c \in E : c < o
            /\ Len(ex.mermaid_blocks) = Cardinality(E)
            /\ Len(out) = Cardinality({i \in 1..(o - 1) : Emits(ls, i)})
            /\ \A i \in 1..(o - 1) : Outside(ls, i) => out[OutPos(ls, i)] = ls[i]
            /\ \A c \in E :
                  /\ ex.mermaid_blocks[CloseRank(ls, c) + 1] =
                        ConcatNl(ls, OpenBefore(ls, c) + 1, c - 1)
                  /\ out[OutPos(ls, c)] = Placeholder(CloseRank(ls, c))

C12_Witness ==
    /\ extracted # NoResult
    /\ Unterminated(Lines(content))
    /\ Len(extracted.val.mermaid_blocks) = 2
    /\ Len(Lines(content)) = LastOpen(Lines(content)) + 2
    /\ Lines(content)[Len(Lines(content))] = <<"e", "n", "d">>
    /\ ~Contains(extracted.val.result, <<"e", "n", "d">>)
    /\ ~Contains(extracted.val.result, <<"l", "o", "s", "t">>)

-----------------------------------------------------------------------------
(* Claims about the composition of the document (ConvSpec).                *)

\* where marker m is in the template
MarkerAt(m) == Min({i \in 1..Len(HTML_TEMPLATE) : MatchAt(HTML_TEMPLATE, m, i)})

\* the template with t in the place of the title marker and body in the place
\* of the content marker, t and body taken as they are
TemplateFilled(t, body) ==
    SubSeq(HTML_TEMPLATE, 1, MarkerAt(TitleMarker) - 1)
    \o t
    \o SubSeq(HTML_TEMPLATE, MarkerAt(TitleMarker) + Len(TitleMarker),
              MarkerAt(ContentMarker) - 1)
    \o body
    \o SubSeq(HTML_TEMPLATE, MarkerAt(ContentMarker) + Len(ContentMarker),
              Len(HTML_TEMPLATE))

\* C13 (as claimed): for every title and body the composed document is the
\* template with the title text verbatim in the title element and the body once
\* between <body> and </body>, also when the title or the body holds the text
\* of a marker.
C13_TemplateFilledVerbatim ==
    (converted # NoResult /\ converted.tag = "ok") =>
        converted.val = TemplateFilled(title.val, converted.html_content)

-----------------------------------------------------------------------------
(* Claims about the database lock (LockSpec).                              *)

\* where an export is suspended in the PDF render
RenderPcs == {"pdf_launch", "pdf_page", "pdf_content", "pdf_sleep", "pdf_print"}

\* C14: an export holds the database lock exactly while it fetches the
\* document, so never during the conversion, the render or the write; whoever
\* holds the lock can finish its fetch and release it, and with the lock free a
\* waiting export and a database command can take it: no state is stuck on the
\* lock, whatever the other export is doing.
C14_LockOnlyWhileFetching ==
    /\ dbLock \in {"free"} \cup DOMAIN exports
    /\ \A t \in DOMAIN exports : (dbLock = t) <=> (exports[t].pc = "fetch")
    /\ dbLock # "free" => ENABLED ExportFetch(dbLock)
    /\ dbLock = "free" =>
          /\ \A t \in DOMAIN exports : exports[t].pc = "lock" => ENABLED ExportLock(t)
          /\ \A id \in SysDocumentIds : ENABLED DeleteDocument(id)

C14_Witness ==
    \E t, u \in DOMAIN exports :
        /\ t # u
        /\ exports[t].pc \in RenderPcs
        /\ exports[t].browser = "running"
        /\ exports[u].pc = "fetch"
        /\ dbLock = u

=============================================================================
